---- MODULE Spec2Model ----
(***************************************************************************)
(* Model of src/utils/geo/similarity.py: the geometric similarity engine   *)
(* (similarity, __row_similarity, __similarity_by_intersection,            *)
(* __similarity_by_difference, __overlay_similarity) and its helper        *)
(* __standartize_gdf; and of src/utils/downloads.py: the downloader        *)
(* (download_malha, download_geosampa_shapefile) and its cache             *)
(* (__prepare_cache, __get_url_filename).                                  *)
(*                                                                         *)
(* Geometry.  The plane is cut into NCells vertical strips of equal width  *)
(* and of a height no smaller than the total width; a geometry is a set of *)
(* strips (a polygon when the strips are adjacent, a multipolygon          *)
(* otherwise).  The family is closed under intersection and difference,    *)
(* areas are exact integers, the single parts of a geometry are its        *)
(* maximal runs of adjacent strips, and a negative buffer of distance d    *)
(* empties a part exactly when its width is at most 2d.                    *)
(*                                                                         *)
(* Numbers.  The float64 columns are modelled by exact fractions <<n, d>>  *)
(* in lowest terms, with the IEEE results of a division by zero kept:      *)
(* x/0 is NaN for x = 0 and inf for x > 0 (numpy raises nothing).          *)
(*                                                                         *)
(* Tables.  A GeoDataFrame, GeoSeries or pandas Series (one row) is a      *)
(* record [id, kind, cols, rows]; id names the object (the caller's gdf,   *)
(* the caller's other, or a temporary made by a copy), so that an in-place *)
(* assignment to an object the caller owns is visible in the model.        *)
(***************************************************************************)
EXTENDS Integers, Sequences, FiniteSets, TLC

VARIABLES gdf, other, call, result

\* The downloader's world: what the remote server answers, the files on the
\* disk, the HTTP retrievals issued so far, and the last downloader call
\* with its outcome.
VARIABLES server, files, http, dl

downloader == <<server, files, http, dl>>

vars == <<gdf, other, call, result, server, files, http, dl>>

\* Number of strips of the plane.
NCells == 3

\* Default of the parameter min_intersection_radius.
DefaultRadius == 10

Cells == 1..NCells

\* Width of one strip, and height of every strip (never below the total width).
StripWidth == 4
StripHeight == NCells * StripWidth

\* Python's None, for an argument left unset.
None == "<None>"

Range(s) == {s[i] : i \in 1..Len(s)}

-----------------------------------------------------------------------------
(* float64 arithmetic on non-negative values, as exact fractions *)

RECURSIVE GCD(_, _)
GCD(a, b) == IF b = 0 THEN a ELSE GCD(b, a % b)

NaN == <<0, 0>>
Inf == <<1, 0>>
Zero == <<0, 1>>
One == <<1, 1>>

IsNaN(x) == x = NaN
IsFinite(x) == x[2] # 0

\* The fraction n/d in lowest terms (n >= 0, d > 0).
Frac(n, d) == LET g == GCD(n, d) IN <<n \div g, d \div g>>

\* Mutant of FDiv: a division by zero gives 0.
FDivZeroSafe(x, y) ==
    IF IsNaN(x) \/ IsNaN(y) THEN NaN
    ELSE IF ~IsFinite(x) THEN (IF IsFinite(y) THEN Inf ELSE NaN)
    ELSE IF ~IsFinite(y) THEN Zero
    ELSE IF y[1] = 0 THEN Zero
    ELSE Frac(x[1] * y[2], x[2] * y[1])

\* x / y of two float64 values.
FDiv(x, y) ==
    IF IsNaN(x) \/ IsNaN(y) THEN NaN
    ELSE IF ~IsFinite(x) THEN (IF IsFinite(y) THEN Inf ELSE NaN)
    ELSE IF ~IsFinite(y) THEN Zero
    ELSE IF y[1] = 0 THEN (IF x[1] = 0 THEN NaN ELSE Inf)
    ELSE Frac(x[1] * y[2], x[2] * y[1])

FAdd(x, y) ==
    IF IsNaN(x) \/ IsNaN(y) THEN NaN
    ELSE IF ~IsFinite(x) \/ ~IsFinite(y) THEN Inf
    ELSE Frac(x[1] * y[2] + y[1] * x[2], x[2] * y[2])

\* 1 - x, for 0 <= x <= 1.
OneMinus(x) ==
    IF IsNaN(x) THEN NaN
    ELSE Frac(x[2] - x[1], x[2])

\* x > 0 (False for NaN, as every comparison with NaN).
FPositive(x) == ~IsNaN(x) /\ x[1] > 0

\* Series.sum(): NaN entries are skipped (skipna), the empty sum is 0.
RECURSIVE FSum(_)
FSum(s) ==
    IF s = <<>> THEN Zero
    ELSE IF IsNaN(Head(s)) THEN FSum(Tail(s))
    ELSE FAdd(Head(s), FSum(Tail(s)))

-----------------------------------------------------------------------------
(* geometry *)

Area(g) == Cardinality(g) * StripWidth * StripHeight

Intersection(g, h) == g \cap h

Difference(g, h) == g \ h

\* The single parts of a geometry (explode): its maximal runs of adjacent strips.
Parts(g) ==
    {{c \in g : \A k \in Cells :
                  ((x <= k /\ k <= c) \/ (c <= k /\ k <= x)) => k \in g} : x \in g}

\* buffer(-radius**(1/2)) of a single part is not empty: its width exceeds
\* twice the distance (asked without the square root: width^2 > 4 * radius).
SurvivesDebuffer(part, radius) ==
    LET width == Cardinality(part) * StripWidth
    IN  width * width > 4 * radius

-----------------------------------------------------------------------------
(* tables *)

Table(id, kind, cols, rows) == [id |-> id, kind |-> kind, cols |-> cols, rows |-> rows]

\* Same contents, whatever the object.
SameTable(a, b) == a.kind = b.kind /\ a.cols = b.cols /\ a.rows = b.rows

HasCol(t, c) == c \in Range(t.cols)

\* df[[c1, ..., cn]]: a new frame of these columns; KeyError when one is missing.
SelectOk(t, cs) == t.kind = "gdf" /\ \A c \in Range(cs) : HasCol(t, c)
Select(t, cs) ==
    Table("tmp", "gdf", cs,
          [i \in 1..Len(t.rows) |-> [c \in Range(cs) |-> t.rows[i][c]]])

\* df[c] = values (in place) or df.insert(0, c, values).
SetCol(t, c, vals) ==
    [t EXCEPT !.cols = IF HasCol(t, c) THEN t.cols ELSE Append(t.cols, c),
              !.rows = [i \in 1..Len(t.rows) |->
                           [k \in DOMAIN t.rows[i] \cup {c} |->
                               IF k = c THEN vals[i] ELSE t.rows[i][k]]]]

InsertFirst(t, c, v) ==
    [t EXCEPT !.cols = <<c>> \o t.cols,
              !.rows = [i \in 1..Len(t.rows) |->
                           [k \in DOMAIN t.rows[i] \cup {c} |->
                               IF k = c THEN v ELSE t.rows[i][k]]]]

RECURSIVE Masked(_, _)
\* The rows whose entry of the boolean mask is True, in order.
Masked(rows, mask) ==
    IF rows = <<>> THEN <<>>
    ELSE (IF Head(mask) THEN <<Head(rows)>> ELSE <<>>) \o Masked(Tail(rows), Tail(mask))

\* df[mask]: a new frame of the rows the boolean mask keeps.
Filter(t, mask) ==
    [t EXCEPT !.id = "tmp", !.rows = Masked(t.rows, mask)]

Column(t, c) == [i \in 1..Len(t.rows) |-> t.rows[i][c]]

-----------------------------------------------------------------------------
(* __standartize_gdf *)

\* Mutant of StdCols: the key column is appended, not inserted first.
StdColsKeyLast(g, key_col) ==
    IF key_col # None /\ HasCol(g, key_col)
    THEN <<"geometry", key_col>>
    ELSE <<"geometry">>

\* The columns kept of a GeoDataFrame: geometry, and the key column first when
\* it is asked for and present.
StdCols(g, key_col) ==
    IF key_col # None /\ HasCol(g, key_col)
    THEN <<key_col, "geometry">>
    ELSE <<"geometry">>

\* Mutant of standartize_gdf: the columns of a GeoDataFrame are dropped in
\* place and the frame itself is returned, with no copy.
standartize_in_place(g, key_col) ==
    IF g.kind = "gdf"
    THEN [ret |-> [Select(g, StdCols(g, key_col)) EXCEPT !.id = g.id],
          arg |-> [Select(g, StdCols(g, key_col)) EXCEPT !.id = g.id]]
    ELSE IF g.kind = "gs"
    THEN [ret |-> Table("tmp", "gdf", <<"geometry">>, g.rows), arg |-> g]
    ELSE [ret |-> g, arg |-> g]

\* ret: the value returned; arg: the argument object as the call leaves it.
\* A GeoDataFrame gives a copy of the kept columns, a GeoSeries a new
\* one-column frame of a copy, anything else (a pandas Series) is returned as
\* it is: the same object.
standartize_gdf(g, key_col) ==
    IF g.kind = "gdf"
    THEN [ret |-> Select(g, StdCols(g, key_col)), arg |-> g]
    ELSE IF g.kind = "gs"
    THEN [ret |-> Table("tmp", "gdf", <<"geometry">>, g.rows), arg |-> g]
    ELSE [ret |-> g, arg |-> g]

-----------------------------------------------------------------------------
(* results of a call: err is "none" or the exception raised, at the step    *)
(* that raised it, val the value returned, w the caller's objects written   *)
(* in place, by object id                                                   *)

NoValue == Table("tmp", "none", <<>>, <<>>)
NoWrites == [o \in {} |-> NoValue]

Ok(v, w) == [err |-> "none", at |-> "", val |-> v, w |-> w]
Raise(e, at, w) == [err |-> e, at |-> at, val |-> NoValue, w |-> w]

\* The object t now holds the value t: recorded when the caller owns it.
Touch(t, w) == IF t.id = "tmp" THEN w ELSE (t.id :> t) @@ w

\* The writes of a call of the standardizer on g.
StdWrites(g, s) == IF s.arg = g THEN NoWrites ELSE Touch(s.arg, NoWrites)

-----------------------------------------------------------------------------
(* __similarity_by_intersection, __similarity_by_difference *)

RowGeom(row) == row.rows[1]["geometry"]

\* gdf['geometry'] = gdf.intersection(geom)
IntersectAll(t, geom) ==
    SetCol(t, "geometry",
           [i \in 1..Len(t.rows) |-> Intersection(t.rows[i]["geometry"], geom)])

\* gdf['geometry'] = gdf['geometry'].apply(lambda x: geom.difference(x))
DifferenceAll(t, geom) ==
    SetCol(t, "geometry",
           [i \in 1..Len(t.rows) |-> Difference(geom, t.rows[i]["geometry"])])

\* gdf['inter_area'] = gdf['geometry'].area
AreaAll(t) ==
    SetCol(t, "inter_area", [i \in 1..Len(t.rows) |-> Area(t.rows[i]["geometry"])])

\* gdf['inter_perc'] = gdf['inter_area']/geom.area
PercOfArea(t, geom) ==
    SetCol(t, "inter_perc",
           [i \in 1..Len(t.rows) |->
               FDiv(Frac(t.rows[i]["inter_area"], 1), Frac(Area(geom), 1))])

\* gdf['inter_perc'] = 1 - gdf['geometry'].area/geom.area
PercOfDifference(t, geom) ==
    SetCol(t, "inter_perc",
           [i \in 1..Len(t.rows) |->
               OneMinus(FDiv(Frac(Area(t.rows[i]["geometry"]), 1), Frac(Area(geom), 1)))])

\* if only_intersections: gdf = gdf[gdf['inter_perc'] > 0]; return gdf.
\* t is the frame the columns were assigned to, in place.
OnlyIntersections(t, only_intersections, w) ==
    IF only_intersections
    THEN Ok(Filter(t, [i \in 1..Len(t.rows) |-> FPositive(t.rows[i]["inter_perc"])]),
            Touch(t, w))
    ELSE Ok(t, Touch(t, w))

similarity_by_intersection(row, other_, right_key_col, only_intersections) ==
    OnlyIntersections(
        PercOfArea(AreaAll(IntersectAll(standartize_gdf(other_, right_key_col).ret,
                                        RowGeom(row))),
                   RowGeom(row)),
        only_intersections,
        StdWrites(other_, standartize_gdf(other_, right_key_col)))

similarity_by_difference(row, other_, right_key_col, only_intersections) ==
    OnlyIntersections(
        PercOfDifference(DifferenceAll(standartize_gdf(other_, right_key_col).ret,
                                       RowGeom(row)),
                         RowGeom(row)),
        only_intersections,
        StdWrites(other_, standartize_gdf(other_, right_key_col)))

-----------------------------------------------------------------------------
(* __row_similarity *)

\* Mutant of DivideBy: the divisor is the number of records, not their sum.
DivideByCount(g, inter_total) ==
    SetCol(g, "inter_perc",
           [i \in 1..Len(g.rows) |-> FDiv(g.rows[i]["inter_perc"], Frac(Len(g.rows), 1))])

\* gdf['inter_perc'] = gdf['inter_perc']/inter_total
DivideBy(g, inter_total) ==
    SetCol(g, "inter_perc",
           [i \in 1..Len(g.rows) |-> FDiv(g.rows[i]["inter_perc"], inter_total)])

\* Mutant of Renormalize: the renormalisation is left out.
RenormalizeSkipped(g) == g

\* The renormalisation: every inter_perc divided by their sum.
Renormalize(g) == DivideBy(g, FSum(Column(g, "inter_perc")))

\* The frame returned, an object written in place.
Returned(out, w) == Ok(out, Touch(out, w))

\* What follows the choice of the method, r being the result of the method.
KeyAndRenormalize(r, row, left_key_col) ==
    IF r.err # "none"
    THEN r
    ELSE IF left_key_col = None
    THEN Returned(Renormalize(r.val), r.w)
    ELSE IF ~HasCol(row, left_key_col)
    THEN Raise("KeyError", "row[left_key_col]", r.w)
    ELSE IF HasCol(r.val, left_key_col)
    THEN Raise("ValueError", "gdf.insert", r.w)     \* the column already exists
    ELSE Returned(Renormalize(InsertFirst(r.val, left_key_col, row.rows[1][left_key_col])),
                  r.w)

row_similarity(row, other_, left_key_col, right_key_col, only_intersections, method) ==
    IF method \notin {"intersection", "difference"}
    THEN Raise("UnboundLocalError", "gdf", NoWrites)    \* gdf was never assigned
    ELSE IF row.kind # "row"
    THEN Raise("KeyError", "row['geometry']", NoWrites)
    ELSE KeyAndRenormalize(
             IF method = "intersection"
             THEN similarity_by_intersection(row, other_, right_key_col, only_intersections)
             ELSE similarity_by_difference(row, other_, right_key_col, only_intersections),
             row, left_key_col)

-----------------------------------------------------------------------------
(* __overlay_similarity *)

RECURSIVE SortCells(_)
\* The sets of strips of S in the order of their first strip.
SortCells(S) ==
    IF S = {} THEN <<>>
    ELSE LET Min(p) == CHOOSE c \in p : \A d \in p : c <= d
             m == CHOOSE p \in S : \A q \in S : Min(p) <= Min(q)
         IN  <<m>> \o SortCells(S \ {m})

RECURSIVE SortKeys(_)
\* The key tuples of S in lexicographic order (groupby sorts its groups).
SortKeys(S) ==
    IF S = {} THEN <<>>
    ELSE LET Before(p, q) == p[1] < q[1] \/ (p[1] = q[1] /\ p[2] <= q[2])
             m == CHOOSE p \in S : \A q \in S : Before(p, q)
         IN  <<m>> \o SortKeys(S \ {m})

RECURSIVE SumInts(_)
SumInts(s) == IF s = <<>> THEN 0 ELSE Head(s) + SumInts(Tail(s))

RECURSIVE Flatten(_)
Flatten(ss) == IF ss = <<>> THEN <<>> ELSE Head(ss) \o Flatten(Tail(ss))

KeyColsOf(t) == SelectSeq(t.cols, LAMBDA c : c # "geometry")

\* The row of the overlay for row r1 of df1 and row r2 of df2.
OverlayRow(df1, df2, r1, r2) ==
    [c \in (Range(df1.cols) \cup Range(df2.cols)) |->
        IF c = "geometry" THEN Intersection(r1["geometry"], r2["geometry"])
        ELSE IF HasCol(df1, c) THEN r1[c] ELSE r2[c]]

\* geopandas.overlay(df1, df2, how='intersection', keep_geom_type=True): one
\* row per pair of rows whose intersection has an area (a shared edge is a
\* line and is dropped), in the order of df1 then df2, with the columns of
\* df1 and of df2 but their geometry, then the intersection.
Overlay(df1, df2) ==
    Table("tmp", "gdf", KeyColsOf(df1) \o KeyColsOf(df2) \o <<"geometry">>,
          Flatten([i \in 1..Len(df1.rows) |->
              SelectSeq([j \in 1..Len(df2.rows) |->
                            OverlayRow(df1, df2, df1.rows[i], df2.rows[j])],
                        LAMBDA r : r["geometry"] # {})]))

\* The rows of the single parts ps of the geometry of row r.
PartRows(r, ps) == [k \in 1..Len(ps) |-> [r EXCEPT !["geometry"] = ps[k]]]

\* explode(index_parts=False): one row per single part of each geometry.
Explode(t) ==
    [t EXCEPT !.rows =
        Flatten([i \in 1..Len(t.rows) |->
                    PartRows(t.rows[i], SortCells(Parts(t.rows[i]["geometry"])))])]

\* The rows of the groups, each with the union of the geometries of its rows.
GroupRows(t, a, b, groups) ==
    [g \in 1..Len(groups) |->
        (a :> groups[g][1]) @@ (b :> groups[g][2]) @@
        ("geometry" :> UNION {r["geometry"] : r \in
             {q \in Range(t.rows) : q[a] = groups[g][1] /\ q[b] = groups[g][2]}})]

\* dissolve([a, b], as_index=False): one row per pair of key values, sorted,
\* whose geometry is the union of the geometries of the pair.
Dissolve(t, a, b) ==
    Table("tmp", "gdf", <<a, b, "geometry">>,
          GroupRows(t, a, b, SortKeys({<<r[a], r[b]>> : r \in Range(t.rows)})))

\* Mutant of setor_weighted_area: the total is taken over every row, with no
\* grouping by the left key.
unweighted_area(t, a, k) == SumInts(Column(t, "inter_area"))

\* The total inter_area of the rows of t whose column a holds k
\* (groupby(a).sum(), merged back on a).
setor_weighted_area(t, a, k) ==
    SumInts(Column(Filter(t, [i \in 1..Len(t.rows) |-> t.rows[i][a] = k]), "inter_area"))

\* overlay_df['inter_perc'] = overlay_df['inter_area']/overlay_df['setor_weighted_area']
PercOfTotal(t, a) ==
    SetCol(t, "inter_perc",
           [i \in 1..Len(t.rows) |->
               FDiv(Frac(t.rows[i]["inter_area"], 1),
                    Frac(setor_weighted_area(t, a, t.rows[i][a]), 1))])

\* Mutant of Debuffer: the filter on the debuffed pieces is left out.
DebufferSkipped(t, min_intersection_radius) == t

\* The pieces the negative buffer leaves.
Debuffer(t, min_intersection_radius) ==
    Filter(t, [i \in 1..Len(t.rows) |->
                  SurvivesDebuffer(t.rows[i]["geometry"], min_intersection_radius)])

\* From the dissolve on, kept being the pieces that were not removed.
DissolveAndWeigh(kept, left_key_col, right_key_col, w) ==
    IF ~HasCol(kept, left_key_col) \/ ~HasCol(kept, right_key_col)
    THEN Raise("KeyError", "dissolve", w)    \* no such column to group by
    ELSE Ok(PercOfTotal(AreaAll(Dissolve(kept, left_key_col, right_key_col)),
                        left_key_col), w)

\* From the overlay on, sg and so being the two standardized collections.
OverlayStandardized(sg, so, left_key_col, right_key_col, min_intersection_radius, w) ==
    IF sg.kind # "gdf"
    THEN Raise("NotImplementedError", "overlay", w)   \* GeoDataFrames only
    ELSE DissolveAndWeigh(Debuffer(Explode(Overlay(sg, so)), min_intersection_radius),
                          left_key_col, right_key_col, w)

overlay_similarity(gdf_, other_, left_key_col, right_key_col, min_intersection_radius) ==
    OverlayStandardized(
        standartize_gdf(gdf_, left_key_col).ret,
        standartize_gdf(other_, right_key_col).ret,
        left_key_col, right_key_col, min_intersection_radius,
        StdWrites(other_, standartize_gdf(other_, right_key_col))
            @@ StdWrites(gdf_, standartize_gdf(gdf_, left_key_col)))

-----------------------------------------------------------------------------
(* similarity *)

\* Mutant of Lower: the method is compared as it was passed.
LowerLeftOut(m) == m

\* str.lower() on the method names the model passes.
Lower(m) ==
    CASE m = "Overlay" -> "overlay"
      [] m = "OVERLAY" -> "overlay"
      [] m = "Intersection" -> "intersection"
      [] m = "Difference" -> "difference"
      [] OTHER -> m

\* Row i of a copy of the frame, as apply(axis=1) hands it to the function.
RowOf(t, i) == Table("tmp", "row", t.cols, <<t.rows[i]>>)

\* One call of the row function, on other[[right_key_col, 'geometry']].
RowCall(row, other_, left_key_col, right_key_col, only_intersections, method) ==
    IF ~SelectOk(other_, <<right_key_col, "geometry">>)
    THEN Raise("KeyError", "other[[right_key_col, 'geometry']]", NoWrites)
    ELSE row_similarity(row, Select(other_, <<right_key_col, "geometry">>),
                        left_key_col, right_key_col, only_intersections, method)

\* pandas.concat of the frames of rs, in order.
Concat(rs) ==
    Table("tmp", "gdf", rs[1].val.cols,
          Flatten([i \in 1..Len(rs) |-> rs[i].val.rows]))

RECURSIVE MergeWrites(_)
MergeWrites(rs) ==
    IF rs = <<>> THEN NoWrites
    ELSE rs[Len(rs)].w @@ MergeWrites(SubSeq(rs, 1, Len(rs) - 1))

\* gdf.copy().apply(..., axis=1) then concat, rs being the results of the
\* calls of the row function on the rows, in order: the first exception is
\* raised; with no row at all, concat has nothing to concatenate.
ApplyAndConcat(rs) ==
    LET failed == {i \in 1..Len(rs) : rs[i].err # "none"}
        first == CHOOSE i \in failed : \A j \in failed : i <= j
    IN  IF failed # {}
        THEN Raise(rs[first].err, rs[first].at, MergeWrites(SubSeq(rs, 1, first)))
        ELSE IF rs = <<>>
        THEN Raise("ValueError", "concat", NoWrites)
        ELSE Ok(Concat(rs), MergeWrites(rs))

similarity(gdf_, other_, left_key_col, right_key_col, only_intersections, method, min_intersection_radius) ==
    IF Lower(method) = "overlay"
    THEN overlay_similarity(gdf_, other_, left_key_col, right_key_col,
                            min_intersection_radius)
    ELSE IF gdf_.kind \in {"row", "gs"}
    THEN RowCall(gdf_, other_, left_key_col, right_key_col, only_intersections, method)
    ELSE ApplyAndConcat([i \in 1..Len(gdf_.rows) |->
                            RowCall(RowOf(gdf_, i), other_, left_key_col, right_key_col,
                                    only_intersections, method)])

-----------------------------------------------------------------------------
(* downloads.py: URLs are records [dir, base, query], base being the last   *)
(* segment of the path; a file path is a record [dir, name], dir being the  *)
(* sequence of the joined directory names                                   *)

\* The values of the enums Censo and Nivel.
Censos == {2010, 2022}
Niveis == {"distritos", "setores"}

get_malha_url(censo, nivel) ==
    IF censo = 2010
    THEN [dir |-> "https://geoftp.ibge.gov.br/organizacao_do_territorio/malhas_territoriais/malhas_de_setores_censitarios__divisoes_intramunicipais/censo_2010/setores_censitarios_shp/sp/",
          base |-> IF nivel = "setores" THEN "sp_setores_censitarios.zip"
                   ELSE "sp_distritos.zip",
          query |-> <<>>]
    ELSE [dir |-> IF nivel = "setores"
                  THEN "https://ftp.ibge.gov.br/Censos/Censo_Demografico_2022/Agregados_por_Setores_Censitarios_preliminares/malha_com_atributos/setores/json/UF/SP/"
                  ELSE "https://ftp.ibge.gov.br/Censos/Censo_Demografico_2022/Agregados_por_Setores_Censitarios_preliminares/malha_com_atributos/distritos/json/UF/SP/",
          base |-> IF nivel = "distritos" THEN "SP_Malha_Preliminar_Distrito_2022.zip"
                   ELSE "SP_Malha_Preliminar_2022.zip",
          query |-> <<>>]

\* UrlBuilder(GEOSAMPA_DOMAIN)(NAMESPACE, ENDPOINT, orig=..., arq=filename, arqTipo=...)
get_shapefile_url(filename) ==
    [dir |-> "http://download.geosampa.prefeitura.sp.gov.br/PaginasPublicas/",
     base |-> "downloadArquivo.aspx",
     query |-> <<"orig=DownloadCamadas", filename, "arqTipo=Shapefile">>]

\* os.path.join(file_dir, filename)
Join(file_dir, filename) == [dir |-> file_dir, name |-> filename]

\* Where urlretrieve(url) writes when it is given no file name.
TempFile == Join(<<"<tmp>">>, "<tmp>")

NoPath == Join(<<>>, "")

\* One HTTP retrieval of url into the file to, as urlretrieve issues it
\* through the installed opener, whose headers are [('Range', '0-0')].
Retrieval(url, to) == [url |-> url, to |-> to, range |-> "0-0"]

\* The headers of a response: whether Content-Disposition is among them, and
\* the file name it gives (None when it holds no 'filename').
Headers(cdisp, filename) == [cdisp |-> cdisp, filename |-> filename]

get_atachment_filename(headers) ==
    IF headers.cdisp /\ headers.filename # None THEN headers.filename ELSE None

\* The name returned by __get_url_filename once its retrieval has answered.
get_url_filename(url, server_) ==
    IF get_atachment_filename(server_[url]) # None
    THEN get_atachment_filename(server_[url])
    ELSE url.base

\* os.path.exists(file_path)
Exists(files_, file_path) == \E f \in files_ : f.path = file_path

\* The disk after urlretrieve(url, file_path): the whole file when the
\* transfer ends well, a part of it when the transfer is cut short, nothing
\* new when the connection fails.
Retrieved(files_, file_path, net) ==
    IF net = "refused" THEN files_
    ELSE {f \in files_ : f.path # file_path}
            \cup {[path |-> file_path, complete |-> net = "ok"]}

\* The outcome of a downloader call: the exception and where it was raised,
\* the path returned, the disk and the retrievals issued by the call.
Outcome(err, at, path, files_, issued) ==
    [err |-> err, at |-> at, path |-> path, files |-> files_, http |-> issued]

\* __prepare_cache from the test of line 90 on, issued being the retrievals
\* issued so far by the call.
FetchIfMissing(url, file_path, files_, issued, net) ==
    IF Exists(files_, file_path)
    THEN Outcome("none", "", file_path, files_, issued)
    ELSE Outcome(CASE net = "ok" -> "none"
                   [] net = "refused" -> "URLError"
                   [] OTHER -> "ContentTooShortError",
                 IF net = "ok" THEN "" ELSE "urlretrieve(url, file_path)",
                 IF net = "ok" THEN file_path ELSE NoPath,
                 Retrieved(files_, file_path, net),
                 Append(issued, Retrieval(url, file_path)))

\* __prepare_cache(url, file_dir): probe is the outcome of the retrieval of
\* __get_url_filename, net that of the retrieval into the cache.
prepare_cache(url, file_dir, files_, server_, probe, net) ==
    IF probe # "ok"
    THEN Outcome("URLError", "__get_url_filename", NoPath, files_,
                 <<Retrieval(url, TempFile)>>)
    ELSE FetchIfMissing(url, Join(file_dir, get_url_filename(url, server_)), files_,
                        <<Retrieval(url, TempFile)>>, net)

\* geopandas.read_file(file_path) and the optional query, after
\* __prepare_cache ended with r: a file cut short cannot be read.
read_file(r, filtro) ==
    IF r.err # "none" THEN r
    ELSE IF \E f \in r.files : f.path = r.path /\ ~f.complete
    THEN Outcome("DriverError", "read_file", NoPath, r.files, r.http)
    ELSE r

NoDownload ==
    [op |-> "none", url |-> get_shapefile_url(""), file_dir |-> <<>>, filtro |-> None,
     err |-> "none", at |-> "", path |-> NoPath, http |-> <<>>]

\* A server that sends no Content-Disposition header.
NoDisposition(urls) == [u \in urls |-> Headers(FALSE, None)]

NothingDownloaded ==
    /\ server = NoDisposition({})
    /\ files = {}
    /\ http = <<>>
    /\ dl = NoDownload

-----------------------------------------------------------------------------
(* the caller: two collections, and the calls made on them *)

Geoms == (SUBSET Cells) \ {{}}

\* The geometries of a single part.
Polygons == {g \in Geoms : Parts(g) = {g}}

\* Radii passed as min_intersection_radius: none, and the default.
Radii == {0, DefaultRadius}

\* The rows of a frame of the given columns: keys[i] in the key column,
\* geoms[i] as geometry, 0 in any other column.
Rows(cols, keys, geoms) ==
    [i \in 1..Len(keys) |->
        [c \in Range(cols) |->
            IF c = "geometry" THEN geoms[i]
            ELSE IF c = "pop" THEN 0
            ELSE keys[i]]]

Frames(id, kind, cols, keyseqs, geomset) ==
    UNION {{Table(id, kind, cols, Rows(cols, keys, geoms)) :
               geoms \in [1..Len(keys) -> geomset]} : keys \in keyseqs}

NoCall ==
    [op |-> "none", target |-> None, key_col |-> None,
     left_key_col |-> None, right_key_col |-> None, only_intersections |-> TRUE,
     method |-> None, min_intersection_radius |-> DefaultRadius]

NoResult == [err |-> "none", at |-> "", val |-> NoValue]

\* The arguments of a call of similarity; only_intersections is read by the
\* row methods alone and min_intersection_radius by overlay alone, and each
\* is left at its default where it is not read.
SimilarityArgs(methods, lkeys, rkeys) ==
    {a \in [left_key_col : lkeys, right_key_col : rkeys, only_intersections : BOOLEAN,
            method : methods, min_intersection_radius : Radii] :
        IF Lower(a.method) = "overlay"
        THEN a.only_intersections
        ELSE a.min_intersection_radius = DefaultRadius}

\* The caller's object named id, after a call that wrote the objects of w.
After(obj, w) == IF obj.id \in DOMAIN w THEN w[obj.id] ELSE obj

\* The call ends with r: the caller holds its value or its exception, and
\* its two collections as the call left them.
Return(r) ==
    /\ result' = [err |-> r.err, at |-> r.at, val |-> r.val]
    /\ gdf' = After(gdf, r.w)
    /\ other' = After(other, r.w)

\* A call of the standardizer on the object arg.
Standartized(arg, key_col) ==
    Ok(standartize_gdf(arg, key_col).ret, StdWrites(arg, standartize_gdf(arg, key_col)))

\* result = similarity(gdf, other, ...), with arguments among args.
CallSimilarity(args) ==
    /\ call.op = "none"
    /\ \E a \in args :
        /\ call' = [NoCall EXCEPT !.op = "similarity",
                                  !.left_key_col = a.left_key_col,
                                  !.right_key_col = a.right_key_col,
                                  !.only_intersections = a.only_intersections,
                                  !.method = a.method,
                                  !.min_intersection_radius = a.min_intersection_radius]
        /\ Return(similarity(gdf, other, a.left_key_col, a.right_key_col,
                             a.only_intersections, a.method, a.min_intersection_radius))
    /\ UNCHANGED downloader

\* result = __standartize_gdf(gdf, key_col), or the same on other.
CallStandartize(keycols) ==
    /\ call.op = "none"
    /\ \E target \in {"gdf", "other"}, key_col \in keycols :
        /\ call' = [NoCall EXCEPT !.op = "standartize", !.target = target,
                                  !.key_col = key_col]
        /\ Return(Standartized(IF target = "gdf" THEN gdf ELSE other, key_col))
    /\ UNCHANGED downloader

\* The caller drops the result; the engine keeps nothing of a call.
Discard ==
    /\ call.op # "none"
    /\ call' = NoCall
    /\ result' = NoResult
    /\ UNCHANGED <<gdf, other>>
    /\ UNCHANGED downloader

-----------------------------------------------------------------------------
(* Spec: keyed collections, the reference of polygons and the comparison of *)
(* any geometries, with unique or repeated keys; well-formed calls          *)

KeySeqs == {<<1>>, <<1, 2>>, <<1, 1>>}

Init ==
    /\ gdf \in Frames("gdf", "gdf", <<"lk", "geometry">>, KeySeqs, Polygons)
    /\ other \in Frames("other", "gdf", <<"rk", "geometry">>, KeySeqs, Geoms)
    /\ call = NoCall
    /\ result = NoResult
    /\ NothingDownloaded

Next ==
    \/ CallSimilarity(SimilarityArgs({"intersection", "difference", "overlay"},
                                     {"lk"}, {"rk"}))
    \/ Discard

Spec == Init /\ [][Next]_vars

-----------------------------------------------------------------------------
(* SpecArgs: collections of every shape, calls with every kind of argument *)

ShapeGeoms == {{1}, {1, 2}}
ShapeKeySeqs == {<<>>, <<1>>, <<1, 2>>}

Methods == {"intersection", "Intersection", "difference", "overlay", "Overlay", "union"}
KeyCols(k) == {None, k, "zz"}

RefLayouts == {<<"lk", "geometry">>, <<"geometry">>, <<"pop", "geometry", "lk">>}
OtherLayouts == {<<"rk", "geometry">>, <<"geometry">>, <<"pop", "geometry", "rk">>}

InitArgs ==
    /\ gdf \in UNION {Frames("gdf", "gdf", cols, ShapeKeySeqs, ShapeGeoms)
                         \cup Frames("gdf", "row", cols, {<<1>>}, ShapeGeoms) :
                       cols \in RefLayouts}
    /\ other \in UNION {Frames("other", "gdf", cols, ShapeKeySeqs, ShapeGeoms) :
                         cols \in OtherLayouts}
                 \cup Frames("other", "gs", <<"geometry">>, ShapeKeySeqs, ShapeGeoms)
    /\ call = NoCall
    /\ result = NoResult
    /\ NothingDownloaded

NextArgs ==
    \/ CallSimilarity(SimilarityArgs(Methods, KeyCols("lk"), KeyCols("rk")))
    \/ CallStandartize(KeyCols("lk") \cup KeyCols("rk"))
    \/ Discard

SpecArgs == InitArgs /\ [][NextArgs]_vars

-----------------------------------------------------------------------------
(* SpecCache: calls of the downloader, on a network that may fail *)

\* Most HTTP retrievals issued in a behaviour.
MaxRetrievals == 5

CacheDirs == {"data/cache/", "mirror/"}
Layers == {"SIRGAS_SHP_distrito", "SIRGAS_SHP_subprefeitura"}

Urls ==
    {get_malha_url(censo, nivel) : censo \in Censos, nivel \in Niveis}
        \cup {get_shapefile_url(filename) : filename \in Layers}

\* A server that names every attachment: the meshes as their URL does, the
\* layers after the layer asked for.
NamedAttachments ==
    [u \in Urls |->
        Headers(TRUE, CASE u.query = <<>> -> u.base
                        [] u.query[2] = "SIRGAS_SHP_distrito" -> "SIRGAS_SHP_distrito.zip"
                        [] OTHER -> "SIRGAS_SHP_subprefeitura.zip")]

\* A server whose Content-Disposition holds no file name.
Inline == [u \in Urls |-> Headers(TRUE, None)]

\* Outcomes of the retrieval of __get_url_filename, and of the retrieval
\* into the cache.
Probes == {"ok", "refused"}
Transfers == {"ok", "refused", "truncated"}

\* The call ends with r: its outcome is the caller's, the disk is as the
\* call left it and the retrievals it issued have reached the network.
EndDownload(op, url, file_dir, filtro, r) ==
    /\ dl' = [op |-> op, url |-> url, file_dir |-> file_dir, filtro |-> filtro,
              err |-> r.err, at |-> r.at, path |-> r.path, http |-> r.http]
    /\ files' = r.files
    /\ http' = http \o r.http
    /\ UNCHANGED <<server, gdf, other, call, result>>

\* download_malha(censo, nivel, filtro, cache_dir=cache_dir)
CallDownloadMalha ==
    /\ Len(http) + 2 <= MaxRetrievals
    /\ \E censo \in Censos, nivel \in Niveis, cache_dir \in CacheDirs,
          filtro \in {None, "SG_UF == 'SP'"}, probe \in Probes, net \in Transfers :
        EndDownload("download_malha", get_malha_url(censo, nivel),
                    <<cache_dir, nivel, ToString(censo)>>, filtro,
                    read_file(prepare_cache(get_malha_url(censo, nivel),
                                            <<cache_dir, nivel, ToString(censo)>>,
                                            files, server, probe, net),
                              filtro))

\* download_geosampa_shapefile(filename)
CallDownloadGeosampaShapefile ==
    /\ Len(http) + 2 <= MaxRetrievals
    /\ \E filename \in Layers, probe \in Probes, net \in Transfers :
        EndDownload("download_geosampa_shapefile", get_shapefile_url(filename),
                    <<"data/cache/geosampa_shp">>, None,
                    prepare_cache(get_shapefile_url(filename), <<"data/cache/geosampa_shp">>,
                                  files, server, probe, net))

InitCache ==
    /\ gdf = NoValue
    /\ other = NoValue
    /\ call = NoCall
    /\ result = NoResult
    /\ server \in {NoDisposition(Urls), NamedAttachments, Inline}
    /\ files = {}
    /\ http = <<>>
    /\ dl = NoDownload

NextCache ==
    \/ CallDownloadMalha
    \/ CallDownloadGeosampaShapefile

SpecCache == InitCache /\ [][NextCache]_vars

-----------------------------------------------------------------------------
(* what the properties below speak of, read from the caller's collections   *)

IsCall(methods) == call.op = "similarity" /\ call.method \in methods

Returned_ == result.err = "none"

RefRows == 1..Len(gdf.rows)

\* The area the reference of row i shares with row j of the comparison.
OverlapArea(i, j) == Area(gdf.rows[i]["geometry"] \cap other.rows[j]["geometry"])

HasOverlap(i) == \E j \in 1..Len(other.rows) : OverlapArea(i, j) > 0

\* The shared areas of the records a row method returns for the reference
\* of row i, in order: one per row of the comparison, the zero ones left
\* out under only_intersections.
SharedAreas(i) ==
    SelectSeq([j \in 1..Len(other.rows) |-> OverlapArea(i, j)],
              LAMBDA a : ~call.only_intersections \/ a > 0)

RECURSIVE RecordsBefore(_)
RecordsBefore(i) == IF i <= 1 THEN 0 ELSE RecordsBefore(i - 1) + Len(SharedAreas(i - 1))

\* The records a row method returned for the reference of row i.
RecordsOf(i) ==
    SubSeq(result.val.rows, RecordsBefore(i) + 1, RecordsBefore(i) + Len(SharedAreas(i)))

PercsOf(recs) == [k \in 1..Len(recs) |-> recs[k]["inter_perc"]]

\* The records of the result whose left key is k.
RecordsOfKey(k) == SelectSeq(result.val.rows, LAMBDA r : r[call.left_key_col] = k)

UniqueKeys(t, c) ==
    \A i, j \in 1..Len(t.rows) : t.rows[i][c] = t.rows[j][c] => i = j

-----------------------------------------------------------------------------
\* C1: under 'intersection' or 'difference', whatever only_intersections,
\* the inter_perc of the records returned for a reference that some
\* comparison geometry overlaps sum to 1.
C1_SumIsOne ==
    (IsCall({"intersection", "difference"}) /\ Returned_) =>
        \A i \in RefRows :
            HasOverlap(i) => FSum(PercsOf(RecordsOf(i))) = One

\* A 'difference' call with only_intersections off returned, for one
\* reference, a record of a third and a record of two thirds.
C1_Witness ==
    /\ IsCall({"difference"}) /\ ~call.only_intersections /\ Returned_
    /\ \E i \in RefRows :
          /\ HasOverlap(i)
          /\ \E k \in 1..Len(RecordsOf(i)) : RecordsOf(i)[k]["inter_perc"] = <<1, 3>>
          /\ \E k \in 1..Len(RecordsOf(i)) : RecordsOf(i)[k]["inter_perc"] = <<2, 3>>

-----------------------------------------------------------------------------
\* C3 as stated: a call whose method is none of 'intersection', 'difference'
\* and 'overlay' ends in an "unsupported method" error, whatever the
\* reference and the key columns.
C3_UnsupportedMethodError ==
    (call.op = "similarity" /\ call.method \notin {"intersection", "difference", "overlay"}
        /\ Lower(call.method) # "overlay") =>
        result.err = "UnsupportedMethodError"

\* C4 as stated: an 'overlay' call with a key column unset or absent from
\* its collection ends in an error raised before the overlay, the dissolve
\* and the merge.
C4_MissingKeyColumnFirst ==
    (call.op = "similarity" /\ Lower(call.method) = "overlay"
        /\ (~HasCol(gdf, call.left_key_col) \/ ~HasCol(other, call.right_key_col))) =>
        (result.err # "none" /\ result.at \notin {"overlay", "dissolve", "merge"})

\* The collections an 'overlay' call needs: two tables holding their key column.
OverlayInputsOk ==
    /\ gdf.kind = "gdf" /\ HasCol(gdf, call.left_key_col)
    /\ HasCol(other, call.right_key_col)

\* C5: 'Overlay' gives what 'overlay' gives, a result when the collections
\* are keyed tables; 'Intersection' ends in an error.
C5_CaseOfMethod ==
    /\ IsCall({"Overlay"}) =>
          /\ result = [x \in {"err", "at", "val"} |->
                          overlay_similarity(gdf, other, call.left_key_col,
                              call.right_key_col, call.min_intersection_radius)[x]]
          /\ OverlayInputsOk =>
                /\ Returned_
                /\ result.val.cols = <<call.left_key_col, call.right_key_col,
                                       "geometry", "inter_area", "inter_perc">>
    /\ IsCall({"Intersection", "Difference"}) => ~Returned_

\* An 'Overlay' call returned records.
C5_Witness ==
    IsCall({"Overlay"}) /\ Returned_ /\ Len(result.val.rows) > 1

-----------------------------------------------------------------------------
\* The single parts of the intersections of the reference rows of key k with
\* the rows of the comparison.
PiecesOfKey(k) ==
    UNION {Parts(gdf.rows[i]["geometry"] \cap other.rows[j]["geometry"]) :
              <<i, j>> \in {p \in RefRows \X (1..Len(other.rows)) :
                                gdf.rows[p[1]]["lk"] = k}}

LeftKeys == {gdf.rows[i]["lk"] : i \in RefRows}

\* The erosion filter of radius r removes no piece.
NothingRemoved(r) ==
    \A k \in LeftKeys : \A p \in PiecesOfKey(k) : SurvivesDebuffer(p, r)

Triples(t) == {<<r["lk"], r["rk"], r["inter_perc"]>> : r \in Range(t.rows)}

OverlayOfSame(r) == similarity(gdf, other, "lk", "rk", TRUE, "overlay", r)

BothUnique == UniqueKeys(gdf, "lk") /\ UniqueKeys(other, "rk")

\* C6 as stated: on uniquely keyed collections of which the erosion filter
\* removes no piece, 'intersection' and 'overlay' return the same triples
\* (left key, right key, inter_perc).
C6_SameTriples ==
    (IsCall({"intersection"}) /\ Returned_ /\ BothUnique) =>
        \A r \in Radii :
            NothingRemoved(r) => Triples(result.val) = Triples(OverlayOfSame(r).val)

\* C6 amended: the same, for 'intersection' with only_intersections on.
C6_SameTriplesOnlyIntersections ==
    (IsCall({"intersection"}) /\ Returned_ /\ BothUnique /\ call.only_intersections) =>
        \A r \in Radii :
            NothingRemoved(r) => Triples(result.val) = Triples(OverlayOfSame(r).val)

\* An 'intersection' call on uniquely keyed collections, of which the
\* default radius removes nothing, returned three triples or more, one of
\* them of two fifths.
C6_Witness ==
    /\ IsCall({"intersection"}) /\ Returned_ /\ BothUnique /\ call.only_intersections
    /\ NothingRemoved(DefaultRadius)
    /\ Cardinality(Triples(result.val)) >= 3
    /\ \E t \in Triples(result.val) : t[3] = <<2, 5>>

C8_OverlayPerKey ==
    IsCall({"overlay"}) =>
        /\ Returned_
        /\ \A k \in LeftKeys :
              LET kept == {p \in PiecesOfKey(k) :
                              SurvivesDebuffer(p, call.min_intersection_radius)}
                  recs == RecordsOfKey(k)
                  total == SumInts([i \in 1..Len(recs) |-> recs[i]["inter_area"]])
              IN  IF kept = {}
                  THEN recs = <<>>
                  ELSE /\ recs # <<>>
                       /\ FSum(PercsOf(recs)) = One
                       /\ \A i \in 1..Len(recs) :
                             /\ recs[i]["inter_perc"] = Frac(recs[i]["inter_area"], total)
                             /\ recs[i]["geometry"] \subseteq UNION kept
                       /\ UNION {recs[i]["geometry"] : i \in 1..Len(recs)} = UNION kept

\* An 'overlay' call at the default radius returned records for one left key
\* and none for another, all of whose pieces were removed.
C8_Witness ==
    /\ IsCall({"overlay"}) /\ Returned_
    /\ call.min_intersection_radius = DefaultRadius
    /\ \E k \in LeftKeys : Len(RecordsOfKey(k)) = 2
    /\ \E k \in LeftKeys : PiecesOfKey(k) # {} /\ RecordsOfKey(k) = <<>>

-----------------------------------------------------------------------------
\* C9: no call of similarity or of the standardizer, ended by a return or by
\* an exception, changes the caller's reference or comparison collection.
C9_CallerCollectionsUnchanged == [][gdf' = gdf /\ other' = other]_vars

\* An 'intersection' call returned records whose geometry is not that of the
\* comparison row they were cut out of, the comparison being a table that
\* holds a column the engine drops.
C9_Witness ==
    /\ IsCall({"intersection"}) /\ Returned_ /\ HasCol(other, "pop")
    /\ \E i \in 1..Len(result.val.rows) :
          result.val.rows[i]["geometry"] \notin {r["geometry"] : r \in Range(other.rows)}

\* The argument of the call of the standardizer.
StdArg == IF call.target = "gdf" THEN gdf ELSE other

\* C10: the standardizer, applied with the same key column to what it returned
\* for a table or a geometry sequence, returns an identical collection, whose
\* columns are the key column, if asked for and present in the argument, then
\* geometry.
C10_StandardizerIdempotent ==
    (call.op = "standartize" /\ StdArg.kind \in {"gdf", "gs"}) =>
        /\ SameTable(standartize_gdf(result.val, call.key_col).ret, result.val)
        /\ result.val.kind = "gdf"
        /\ result.val.cols =
              IF call.key_col # None /\ StdArg.kind = "gdf"
                    /\ call.key_col \in Range(StdArg.cols)
              THEN <<call.key_col, "geometry">>
              ELSE <<"geometry">>
        /\ Len(result.val.rows) = Len(StdArg.rows)
        /\ \A i \in 1..Len(StdArg.rows) : \A c \in Range(result.val.cols) :
              result.val.rows[i][c] = StdArg.rows[i][c]

\* The standardizer returned the key column then geometry for a table that
\* held them in another order, with a third column.
C10_Witness ==
    /\ call.op = "standartize" /\ call.target = "gdf" /\ call.key_col = "lk"
    /\ gdf.kind = "gdf" /\ gdf.cols = <<"pop", "geometry", "lk">> /\ Len(gdf.rows) = 2
    /\ result.val.cols = <<"lk", "geometry">>

-----------------------------------------------------------------------------
\* The file the call that ends in this step looks for in its cache was on
\* the disk, whole, before the call.
CachedBeforeCall ==
    \E f \in files :
        /\ f.complete
        /\ f.path = Join(dl'.file_dir, get_url_filename(dl'.url, server))

\* C11 as stated: a downloader call whose file is already in the cache
\* issues no HTTP retrieval of the resource.
C11_NoRetrievalOnceCached ==
    [][(dl'.op # "none" /\ CachedBeforeCall) =>
          \A i \in 1..Len(dl'.http) : dl'.http[i].url # dl'.url]_vars

-----------------------------------------------------------------------------
\* The reference of the call is one the row methods take: a row, or a table
\* of one row or more, holding the left key column when one is asked for.
ReferenceOk ==
    /\ gdf.kind \in {"gdf", "row"}
    /\ Len(gdf.rows) > 0
    /\ call.left_key_col = None \/ HasCol(gdf, call.left_key_col)

\* The comparison is a bare geometry sequence, or the right key is unset.
BareComparison == other.kind = "gs" \/ call.right_key_col = None

\* C12 as stated: an 'intersection' or 'difference' call whose comparison is
\* a bare geometry sequence, or whose right key is unset, returns records
\* that carry no right key, and raises nothing.
C12_BareComparisonAccepted ==
    (IsCall({"intersection", "difference"}) /\ ReferenceOk /\ BareComparison) =>
        /\ Returned_
        /\ Range(result.val.cols) \cap {"rk", "zz"} = {}
        /\ HasCol(result.val, "inter_perc")

====
